---------------------------- MODULE Spec2Model ----------------------------
(***************************************************************************)
(* Playlist synchronisation of interactive-song-list.                      *)
(*                                                                         *)
(* services/googleSheets.ts keeps the playlist in a two-column sheet and   *)
(* changes it by read-modify-write cycles; services/googleAuth.ts holds    *)
(* the credential that gates the writes.                                   *)
(*                                                                         *)
(* The specifications share the variables:                                 *)
(*   Spec         one browser session running the playlist operations      *)
(*                against the sheet.  A session has at most one request    *)
(*                outstanding, so the limiter is a suspension point only.  *)
(*   SpecShared   two sessions adding songs to the same sheet.             *)
(*   SpecToggle   one session toggling songs, one toggle after the other.  *)
(*   SpecReader   getPlaylistData on sheets with every kind of row.        *)
(*   SpecWriter   updatePlaylistData on collections in any sequence.       *)
(*   SpecLimiter  rateLimitedFetch with a clock and overlapping calls of   *)
(*                one session.                                             *)
(*   SpecStore    Spec with initializePlaylistSheet as well.               *)
(*   SpecLive     one session toggling songs, with timers that fire and    *)
(*                requests that are answered.                              *)
(*   SpecAuth     googleAuth.ts alone, with its listener and the token's   *)
(*                lifetime.                                                *)
(*   SpecUI       App.tsx: the page's handlers on top of both services.    *)
(*   SpecRemove   one session removing a song and removing it again.       *)
(*   SpecBusy     App.tsx with a user who clicks one control after another.*)
(***************************************************************************)
EXTENDS Integers, Sequences, FiniteSets, TLC

VARIABLES
    sheet,            \* rows of Playlist!A:B on the server, header included
    auth,             \* per session: module state of googleAuth.ts
    op,               \* per session: the playlist operation in progress
    opsLeft,          \* per session: calls the session may still make
    lastWrite,        \* history: the last PUT the server accepted
    used,             \* history: the calls so far that store ids without a look-up
    ui,               \* per session: the state of the App component
    now,              \* SpecLimiter: Date.now()
    lastRequestTime,  \* SpecLimiter: googleSheets.ts module variable
    calls,            \* SpecLimiter: per call of rateLimitedFetch, its position
    arrivals          \* SpecLimiter: number of calls entered so far

vars == <<sheet, auth, op, opsLeft, lastWrite, used, ui, now, lastRequestTime, calls,
          arrivals>>

sheetVars   == <<sheet, auth, op, opsLeft, lastWrite, used, ui>>
limiterVars == <<now, lastRequestTime, calls, arrivals>>

----------------------------------------------------------------------------
(* Bounds *)

MaxInitRows == 3      \* data rows of the sheet at the start
MaxOps      == 1      \* operations each session starts
MaxListLen  == 2      \* length of the id list handed to reorderPlaylist
MaxClock    == 3000   \* the clock stops advancing here
MaxSharedRows == 2    \* data rows of the sheet at the start, two sessions
MaxToggles  == 2      \* SpecToggle: toggles the session starts
MaxReadRows == 2      \* SpecReader: rows of the sheet after the header
MaxItems    == 3      \* SpecWriter: entries handed to updatePlaylistData
MaxOrder    == 1      \* SpecWriter: largest order field of an entry
MaxUIRows   == 3      \* SpecUI: data rows of the sheet at the start
MaxRemoves  == 2      \* SpecRemove: removes of the same song, one after the other
MaxClicks   == 2      \* SpecBusy: handler calls of the page
MaxBusyRows == 2      \* SpecBusy: data rows of the sheet at the start

Sessions == {"s1", "s2"}
Solo     == {"s1"}
SongIds  == {"a", "b"}
Calls    == {"c1", "c2", "c3"}

----------------------------------------------------------------------------
(* Constants of the program *)

RATE_LIMIT_DELAY == 1000

Header == <<"Song UUID", "Selected">>

----------------------------------------------------------------------------
(* Pure helpers *)

SeqsUpTo(S, n) == UNION {[1..k -> S] : k \in 0..n}

\* row[i] of a string[] row; a missing cell reads as undefined, which the
\* reader treats like the empty string
Cell(row, i) == IF Len(row) >= i THEN row[i] ELSE ""

\* index of the first item with this songId, 0 when none (Array.find)
Find(items, id) ==
    LET hits == {i \in 1..Len(items) : items[i].songId = id}
    IN  IF hits = {} THEN 0 ELSE CHOOSE i \in hits : \A j \in hits : i <= j

----------------------------------------------------------------------------
(* PlaylistItem and the reader's and writer's conversions *)

PlaylistItem(songId, selected, order) ==
    [songId |-> songId, selected |-> selected, order |-> order]

\* a reader that numbers the entries after dropping the rows without a songId
ParseRowsCompact(rows) ==
    LET body == IF rows = <<>> THEN <<>> ELSE Tail(rows)
        kept == SelectSeq(body, LAMBDA row : Cell(row, 1) # "")
    IN  [i \in 1..Len(kept) |->
            PlaylistItem(Cell(kept[i], 1), Cell(kept[i], 2) \in {"TRUE", "true", "1"}, i - 1)]

\* rows.slice(1).map((row, index) => ...).filter(item => item.songId):
\* the index is taken before the filter, so a dropped row leaves a gap
ParseRows(rows) ==
    LET body   == IF rows = <<>> THEN <<>> ELSE Tail(rows)
        mapped == [i \in 1..Len(body) |->
                     PlaylistItem(Cell(body[i], 1),
                                  Cell(body[i], 2) \in {"TRUE", "true", "1"},
                                  i - 1)]
    IN  SelectSeq(mapped, LAMBDA item : item.songId # "")

\* a sort that puts an entry before the entries of equal order already placed
RECURSIVE InsertBeforeTies(_, _)
InsertBeforeTies(sorted, item) ==
    IF sorted = <<>> THEN <<item>>
    ELSE IF sorted[Len(sorted)].order < item.order THEN Append(sorted, item)
    ELSE Append(InsertBeforeTies(SubSeq(sorted, 1, Len(sorted) - 1), item),
                sorted[Len(sorted)])

\* Array.prototype.sort with (a, b) => a.order - b.order: stable, ascending
RECURSIVE InsertByOrder(_, _)
InsertByOrder(sorted, item) ==
    IF sorted = <<>> THEN <<item>>
    ELSE IF sorted[Len(sorted)].order <= item.order THEN Append(sorted, item)
    ELSE Append(InsertByOrder(SubSeq(sorted, 1, Len(sorted) - 1), item),
                sorted[Len(sorted)])

RECURSIVE SortByOrder(_)
SortByOrder(items) ==
    IF items = <<>> THEN <<>>
    ELSE InsertByOrder(SortByOrder(SubSeq(items, 1, Len(items) - 1)),
                       items[Len(items)])

\* a sheet's rows end at its last row that holds a value
RECURSIVE Trim(_)
Trim(rows) ==
    IF rows = <<>> THEN <<>>
    ELSE IF \A i \in 1..Len(rows[Len(rows)]) : rows[Len(rows)][i] = ""
    THEN Trim(SubSeq(rows, 1, Len(rows) - 1))
    ELSE rows

\* a PUT body of the item rows alone
ToValuesRowsOnly(playlistItems) ==
    LET sortedItems == SortByOrder(playlistItems)
    IN  [i \in 1..Len(sortedItems) |->
            <<sortedItems[i].songId,
              IF sortedItems[i].selected THEN "TRUE" ELSE "FALSE">>]

\* the values matrix of the PUT body: header, then one row per sorted item
ToValues(playlistItems) ==
    LET sortedItems == SortByOrder(playlistItems)
    IN  <<Header>> \o
        [i \in 1..Len(sortedItems) |->
            <<sortedItems[i].songId,
              IF sortedItems[i].selected THEN "TRUE" ELSE "FALSE">>]

\* PUT .../values/Playlist!A:B?valueInputOption=RAW is spreadsheets.values.update:
\* it sets the cells the body supplies, starting at the top of the range, and
\* leaves every row below the supplied ones as it was
ValuesUpdate(rows, values) ==
    Trim(values \o SubSeq(rows, Len(values) + 1, Len(rows)))

----------------------------------------------------------------------------
(* The collections the four operations compute from a fetched playlist *)

\* line 139 without the renumbering
RemoveItemsKeepOrder(currentPlaylist, songId) ==
    SelectSeq(currentPlaylist, LAMBDA item : item.songId # songId)

\* lines 160-162 with the entries renumbered as removeSongFromPlaylist does
SelectItemsRenumbered(currentPlaylist, songId) ==
    [i \in 1..Len(currentPlaylist) |->
        [currentPlaylist[i] EXCEPT
            !.selected = IF currentPlaylist[i].songId = songId THEN TRUE ELSE @,
            !.order = i - 1]]

\* line 185 without the lookup of the existing flag
ReorderItemsSelected(currentPlaylist, reorderedSongIds) ==
    [i \in 1..Len(reorderedSongIds) |-> PlaylistItem(reorderedSongIds[i], TRUE, i - 1)]

AddItems(currentPlaylist, songId) ==
    Append(currentPlaylist, PlaylistItem(songId, TRUE, Len(currentPlaylist)))

RemoveItems(currentPlaylist, songId) ==
    LET kept == SelectSeq(currentPlaylist, LAMBDA item : item.songId # songId)
    IN  [i \in 1..Len(kept) |-> [kept[i] EXCEPT !.order = i - 1]]

SelectItems(currentPlaylist, songId) ==
    [i \in 1..Len(currentPlaylist) |->
        IF currentPlaylist[i].songId = songId
        THEN [currentPlaylist[i] EXCEPT !.selected = TRUE]
        ELSE currentPlaylist[i]]

ReorderItems(currentPlaylist, reorderedSongIds) ==
    [i \in 1..Len(reorderedSongIds) |->
        LET k == Find(currentPlaylist, reorderedSongIds[i])
        IN  PlaylistItem(reorderedSongIds[i],
                         IF k = 0 THEN TRUE ELSE currentPlaylist[k].selected,
                         i - 1)]

----------------------------------------------------------------------------
(* App.tsx: the state of the component and what it shows *)

\* the songs the Drive folder lists, in the sequence of the listing
Catalog == <<"a", "b", "c">>

CatalogIds == {Catalog[i] : i \in 1..Len(Catalog)}

\* playlistOrder: null
Null == -1

\* `songs` with the playlist information of a fetched playlist: isSelected is
\* playlistItem?.selected || false, playlistOrder is playlistItem?.order || null
\* (an order of 0 gives null)
SongsWith(playlist) ==
    [id \in CatalogIds |->
        LET k == Find(playlist, id)
        IN  [isSelected    |-> k # 0 /\ playlist[k].selected,
             playlistOrder |-> IF k # 0 /\ playlist[k].order # 0
                               THEN playlist[k].order ELSE Null]]

\* the component after mount and before the playlist is loaded
NoUI ==
    [songs           |-> SongsWith(<<>>),
     playlistData    |-> <<>>,
     isUpdating      |-> FALSE,
     isAuthenticated |-> FALSE,
     handler         |-> "none",   \* the handler called last: toggleSong, moveSong, refreshPlaylist
     arg             |-> <<>>,     \* history: the arguments that call used
     outcome         |-> "none",   \* history: how it ended: alert, return, or its await: ok, failed
     before          |-> <<>>,     \* history: songs and playlistData when it was called
     inFlight        |-> 0]        \* history: handlers between setIsUpdating(true) and (false)

\* the component with a loaded playlist and a signed-in user
LoadedUI(playlist) ==
    [NoUI EXCEPT !.songs = SongsWith(playlist), !.playlistData = playlist,
                 !.isAuthenticated = TRUE]

\* songs.filter(isSelected).sort by (playlistOrder || 0): the ids in the
\* sequence the playlist panel shows them
selectedSongs(u) ==
    LET shown  == SelectSeq(Catalog, LAMBDA id : u.songs[id].isSelected)
        keyed  == [i \in 1..Len(shown) |->
                      PlaylistItem(shown[i], TRUE,
                                   IF u.songs[shown[i]].playlistOrder = Null THEN 0
                                   ELSE u.songs[shown[i]].playlistOrder)]
        sorted == SortByOrder(keyed)
    IN  [i \in 1..Len(sorted) |-> sorted[i].songId]

IndexOf(seq, x) == CHOOSE i \in 1..Len(seq) : seq[i] = x

\* the song inserted at newIndex before it is taken out at currentIndex
SplicedInsertFirst(seq, currentIndex, newIndex) ==
    LET more == SubSeq(seq, 1, newIndex - 1) \o <<seq[currentIndex]>>
                    \o SubSeq(seq, newIndex, Len(seq))
    IN  SubSeq(more, 1, currentIndex - 1) \o SubSeq(more, currentIndex + 1, Len(more))

\* splice(currentIndex, 1) then splice(newIndex, 0, movedSong)
Spliced(seq, currentIndex, newIndex) ==
    LET rest == SubSeq(seq, 1, currentIndex - 1) \o SubSeq(seq, currentIndex + 1, Len(seq))
    IN  SubSeq(rest, 1, newIndex - 1) \o <<seq[currentIndex]>>
            \o SubSeq(rest, newIndex, Len(rest))

\* a handler of the component is called and returns before its first await
Returned(u, handler, arg, outcome) ==
    [u EXCEPT !.handler = handler, !.arg = arg, !.outcome = outcome,
              !.before = <<[songs |-> u.songs, playlistData |-> u.playlistData]>>]

\* a handler of the component calls setIsUpdating(true) and a playlist function
\* and awaits it
Await(u, handler, arg) ==
    [Returned(u, handler, arg, "none") EXCEPT !.isUpdating = TRUE, !.inFlight = @ + 1]

\* the awaited function o has returned or thrown: refreshPlaylist stores what
\* it read, toggleSong and moveSong only report an error; each ends with
\* setIsUpdating(false)
Resume(u, o) ==
    IF o.pc # "done" \/ ~u.isUpdating
    THEN u
    ELSE IF u.handler = "refreshPlaylist"
    THEN [u EXCEPT !.playlistData = o.snapshot, !.songs = SongsWith(o.snapshot),
                   !.isUpdating = FALSE, !.inFlight = @ - 1, !.outcome = "ok"]
    ELSE [u EXCEPT !.isUpdating = FALSE, !.inFlight = @ - 1,
                   !.outcome = IF o.result = "ok" THEN "ok" ELSE "failed"]

\* the listener GoogleSignIn registers hands the flag to setIsAuthenticated
Listener(a, u, signedIn) ==
    IF a.authStateCallback = "null" THEN u ELSE [u EXCEPT !.isAuthenticated = signedIn]

----------------------------------------------------------------------------
(* googleAuth.ts *)

SignedOut ==
    [isInitialized |-> FALSE, currentUser |-> "null", accessToken |-> "null",
     tokenRequested |-> FALSE,
     authStateCallback |-> "null",  \* null, or set: the listener onAuthStateChanged registered
     expired  |-> FALSE,            \* the lifetime of the held access token is over
     lastCall |-> <<>>,             \* history: the latest call of the listener
     gis      |-> <<>>]             \* Google Identity Services (GisLoaded), when modelled

\* the state after initializeGapi, a credential and a granted token
SignedIn ==
    [isInitialized |-> TRUE, currentUser |-> "user", accessToken |-> "token",
     tokenRequested |-> FALSE, authStateCallback |-> "null", expired |-> FALSE,
     lastCall |-> <<>>, gis |-> <<>>]

\* the library's side of the module: the token client the module has made,
\* and the latest signOut as the library saw it: whether a token client
\* existed, the token the module held when signOut was called, and the
\* argument of oauth2.revoke ("none": revoke was not called)
GisLoaded == <<[tokenClient |-> "null", lastSignOut |-> <<>>]>>

\* requestAuthorization: if (!tokenClient) tokenClient = initTokenClient(...)
InitTokenClient(g) ==
    IF g = <<>> THEN g ELSE <<[g[1] EXCEPT !.tokenClient = "set"]>>

\* signOut's `if (tokenClient) revoke(accessToken, ...)`, run in the module
\* state a, after the assignments of lines 195-196, held being the token
\* before them
Revoke(g, a, held) ==
    IF g = <<>> THEN g
    ELSE <<[g[1] EXCEPT !.lastSignOut =
               <<[tokenClient |-> g[1].tokenClient,
                  held        |-> held,
                  revoked     |-> IF g[1].tokenClient = "null" THEN "none"
                                  ELSE a.accessToken]>>]>>

isSignedIn(s) ==
    auth[s].currentUser # "null" /\ auth[s].accessToken # "null"

getAccessToken(s) == auth[s].accessToken

isGapiReady(s) ==
    auth[s].isInitialized /\ auth[s].currentUser # "null" /\ auth[s].accessToken # "null"

\* the scripts load and google.accounts.id.initialize registers the callback
initializeGapi(s) ==
    /\ ~auth[s].isInitialized
    /\ auth' = [auth EXCEPT ![s].isInitialized = TRUE]
    /\ UNCHANGED <<sheet, op, opsLeft, lastWrite, used, ui, limiterVars>>

\* the identity provider delivers a credential (the callback exists once
\* initializeGapi has registered it); requestAuthorization asks the token
\* client for an access token
handleCredentialResponse(s) ==
    /\ auth[s].isInitialized
    /\ auth' = [auth EXCEPT ![s].currentUser = "user",
                            ![s].tokenRequested = TRUE,
                            ![s].gis = InitTokenClient(@)]
    /\ UNCHANGED <<sheet, op, opsLeft, lastWrite, used, ui, limiterVars>>

\* if (authStateCallback) authStateCallback(value), in the module state a;
\* lastCall keeps the argument and what isSignedIn() and isGapiReady() return
\* at that moment
Notify(a, value) ==
    IF a.authStateCallback = "null"
    THEN a
    ELSE [a EXCEPT !.lastCall =
             <<[value      |-> value,
                isSignedIn |-> a.currentUser # "null" /\ a.accessToken # "null",
                isGapiReady |-> a.isInitialized /\ a.currentUser # "null"
                                               /\ a.accessToken # "null"]>>]

\* the token client's callback: a response with or without an access_token
TokenResponse(s, granted) ==
    /\ auth[s].tokenRequested
    /\ auth' = [auth EXCEPT ![s] =
                   Notify([@ EXCEPT !.tokenRequested = FALSE,
                                    !.accessToken = IF granted THEN "token" ELSE @,
                                    !.expired = IF granted THEN FALSE ELSE @],
                          granted)]
    /\ ui' = [ui EXCEPT ![s] = Listener(auth[s], @, granted)]
    /\ UNCHANGED <<sheet, op, opsLeft, lastWrite, used, limiterVars>>

\* a signOut that does not call the listener
signOutSilent(s) ==
    /\ auth' = [auth EXCEPT ![s] =
                   LET a == [@ EXCEPT !.currentUser = "null", !.accessToken = "null",
                                      !.expired = FALSE]
                   IN  [a EXCEPT !.gis = Revoke(@, a, auth[s].accessToken)]]
    /\ UNCHANGED <<sheet, op, opsLeft, lastWrite, used, ui, limiterVars>>

\* signOut: the two assignments, the revoke, the listener; it has no await
\* and runs to its end in one step
signOut(s) ==
    /\ auth' = [auth EXCEPT ![s] =
                   LET a == [@ EXCEPT !.currentUser = "null", !.accessToken = "null",
                                      !.expired = FALSE]
                   IN  Notify([a EXCEPT !.gis = Revoke(@, a, auth[s].accessToken)],
                              FALSE)]
    /\ ui' = [ui EXCEPT ![s] = Listener(auth[s], @, FALSE)]
    /\ UNCHANGED <<sheet, op, opsLeft, lastWrite, used, limiterVars>>

\* the component registers its listener
onAuthStateChanged(s) ==
    /\ auth[s].authStateCallback = "null"
    /\ auth' = [auth EXCEPT ![s].authStateCallback = "set"]
    /\ UNCHANGED <<sheet, op, opsLeft, lastWrite, used, ui, limiterVars>>

\* the lifetime the authorization server gave the access token runs out; the
\* module keeps no expiry and nothing in it changes
TokenExpires(s) ==
    /\ auth[s].accessToken # "null"
    /\ ~auth[s].expired
    /\ auth' = [auth EXCEPT ![s].expired = TRUE]
    /\ UNCHANGED <<sheet, op, opsLeft, lastWrite, used, ui, limiterVars>>

----------------------------------------------------------------------------
(* googleSheets.ts: the playlist operations of one session *)

IdleOp ==
    [pc       |-> "idle",   \* idle, read_wait, read_flight, write_wait, write_flight, done
     entry    |-> "none",   \* the exported function the caller invoked
     kind     |-> "none",   \* the function now running (toggle hands over to add / remove)
     songId   |-> "",
     ids      |-> <<>>,
     first    |-> "none",   \* outcome of the first fetch: ok, failed
     snapshot |-> <<>>,     \* currentPlaylist of the latest fetch
     items    |-> <<>>,     \* playlistItems handed to updatePlaylistData
     values   |-> <<>>,     \* body of the PUT
     token    |-> "null",   \* bearer token put in the PUT's header
     ready    |-> "none",   \* isGapiReady() when updatePlaylistData was called: yes, no
     nLimited |-> 0,        \* calls of rateLimitedFetch
     nFetch   |-> 0,        \* GET requests sent
     nWrite   |-> 0,        \* PUT requests sent
     nFailed  |-> 0,        \* GET requests that failed
     wstatus  |-> -1,       \* status of the PUT's response, -1 before it
     result   |-> "none",   \* ok, or the error thrown to the caller
     prev     |-> <<>>]     \* history of a toggle: the id the toggle before it removed

\* a reader that parses whatever rows there are, whatever the status
getPlaylistDataAnyStatus(status, rows) == ParseRows(rows)

\* getPlaylistData's value for a response: every failure is caught and gives []
getPlaylistData(status, rows) ==
    IF status = 200 THEN ParseRows(rows) ELSE <<>>

\* updatePlaylistData without the check of lines 66-68
updatePlaylistDataUnchecked(s, o, playlistItems) ==
    IF getAccessToken(s) = "null"
    THEN [o EXCEPT !.pc = "done", !.items = playlistItems,
                   !.ready = IF isGapiReady(s) THEN "yes" ELSE "no",
                   !.values = ToValues(playlistItems), !.result = "NoToken"]
    ELSE [o EXCEPT !.pc = "write_wait", !.items = playlistItems,
                   !.ready = IF isGapiReady(s) THEN "yes" ELSE "no",
                   !.values = ToValues(playlistItems),
                   !.token = getAccessToken(s), !.nLimited = @ + 1]

\* updatePlaylistData up to its await: the readiness check, the payload, the
\* token, and the call of rateLimitedFetch
updatePlaylistData(s, o, playlistItems) ==
    IF ~isGapiReady(s)
    THEN [o EXCEPT !.pc = "done", !.items = playlistItems, !.ready = "no",
                   !.result = "Unauthenticated"]
    ELSE IF getAccessToken(s) = "null"
    THEN [o EXCEPT !.pc = "done", !.items = playlistItems, !.ready = "yes",
                   !.values = ToValues(playlistItems), !.result = "NoToken"]
    ELSE [o EXCEPT !.pc = "write_wait", !.items = playlistItems, !.ready = "yes",
                   !.values = ToValues(playlistItems),
                   !.token = getAccessToken(s), !.nLimited = @ + 1]

\* a function that starts with `await getPlaylistData()`
CallGetPlaylistData(o, kind) ==
    [o EXCEPT !.pc = "read_wait", !.kind = kind, !.nLimited = @ + 1]

addSongToPlaylistThen(s, o, currentPlaylist) ==
    updatePlaylistData(s, o, AddItems(currentPlaylist, o.songId))

removeSongFromPlaylistThen(s, o, currentPlaylist) ==
    updatePlaylistData(s, o, RemoveItems(currentPlaylist, o.songId))

reorderPlaylistThen(s, o, currentPlaylist) ==
    updatePlaylistData(s, o, ReorderItems(currentPlaylist, o.ids))

\* toggleSongSelection writing from its own fetch instead of calling
\* removeSongFromPlaylist / addSongToPlaylist
toggleSongSelectionInline(s, o, currentPlaylist) ==
    LET k == Find(currentPlaylist, o.songId)
    IN  IF k # 0
        THEN IF currentPlaylist[k].selected
             THEN updatePlaylistData(s, o, RemoveItems(currentPlaylist, o.songId))
             ELSE updatePlaylistData(s, o, SelectItems(currentPlaylist, o.songId))
        ELSE updatePlaylistData(s, o, AddItems(currentPlaylist, o.songId))

\* toggleSongSelection flipping the flag of a selected entry instead of
\* removing the entry
toggleSongSelectionFlag(s, o, currentPlaylist) ==
    IF Find(currentPlaylist, o.songId) # 0
    THEN updatePlaylistData(s, o,
            [i \in 1..Len(currentPlaylist) |->
                IF currentPlaylist[i].songId = o.songId
                THEN [currentPlaylist[i] EXCEPT !.selected = ~@]
                ELSE currentPlaylist[i]])
    ELSE CallGetPlaylistData(o, "add")

toggleSongSelectionThen(s, o, currentPlaylist) ==
    LET k == Find(currentPlaylist, o.songId)
    IN  IF k # 0
        THEN IF currentPlaylist[k].selected
             THEN CallGetPlaylistData(o, "remove")
             ELSE updatePlaylistData(s, o, SelectItems(currentPlaylist, o.songId))
        ELSE CallGetPlaylistData(o, "add")

\* initializePlaylistSheet without the test of line 203
initializePlaylistSheetAlways(s, o, currentData) ==
    IF ~isGapiReady(s)
    THEN [o EXCEPT !.pc = "done", !.ready = "no", !.result = "ok"]
    ELSE IF getAccessToken(s) = "null"
    THEN [o EXCEPT !.pc = "done", !.ready = "yes", !.result = "ok"]
    ELSE [o EXCEPT !.pc = "write_wait", !.ready = "yes", !.values = <<Header>>,
                   !.token = getAccessToken(s), !.nLimited = @ + 1]

\* initializePlaylistSheet after its fetch: with no entry read (an empty
\* playlist or a failed fetch) and a signed-in user it PUTs the header row to
\* A1:B1; otherwise it returns
initializePlaylistSheetThen(s, o, currentData) ==
    IF currentData # <<>>
    THEN [o EXCEPT !.pc = "done", !.result = "ok"]
    ELSE IF ~isGapiReady(s)
    THEN [o EXCEPT !.pc = "done", !.ready = "no", !.result = "ok"]
    ELSE IF getAccessToken(s) = "null"
    THEN [o EXCEPT !.pc = "done", !.ready = "yes", !.result = "ok"]
    ELSE [o EXCEPT !.pc = "write_wait", !.ready = "yes", !.values = <<Header>>,
                   !.token = getAccessToken(s), !.nLimited = @ + 1]

\* checkSheetAccess after `await getPlaylistData()`: the await cannot throw,
\* since getPlaylistData catches every error, so the try block returns true
checkSheetAccessThen(o, currentPlaylist) ==
    [o EXCEPT !.pc = "done", !.result = "true"]

\* a toggle that found its id stored and selected and went on to remove it,
\* no request failing
ToggledOff(o) ==
    o.entry = "toggle" /\ o.kind = "remove" /\ o.result = "ok" /\ o.nFailed = 0

\* an exported function is called: it runs up to its `await getPlaylistData()`
Start(s, entry, songId, ids) ==
    /\ opsLeft[s] > 0
    /\ opsLeft' = [opsLeft EXCEPT ![s] = @ - 1]
    /\ op' = [op EXCEPT ![s] =
                CallGetPlaylistData(
                    [IdleOp EXCEPT !.entry = entry, !.songId = songId, !.ids = ids,
                                   !.prev = IF entry = "toggle" /\ ToggledOff(op[s])
                                            THEN <<op[s].songId>> ELSE <<>>],
                    entry)]
    /\ used' = used \cup ({entry} \cap {"add"})
    /\ UNCHANGED <<sheet, auth, lastWrite, limiterVars>>

\* a caller that awaits each exported function before it calls the next
Begin(s, entry, songId, ids) ==
    /\ op[s].pc \in {"idle", "done"}
    /\ Start(s, entry, songId, ids)

IdLists == {l \in SeqsUpTo(SongIds, MaxListLen) : \A i, j \in 1..Len(l) : l[i] = l[j] => i = j}

\* the exported functions called from outside the component
toggleSongSelection(s, songId) ==
    Begin(s, "toggle", songId, <<>>) /\ UNCHANGED ui

addSongToPlaylist(s, songId) ==
    Begin(s, "add", songId, <<>>) /\ UNCHANGED ui

removeSongFromPlaylist(s, songId) ==
    Begin(s, "remove", songId, <<>>) /\ UNCHANGED ui

reorderPlaylist(s, reorderedSongIds) ==
    Begin(s, "reorder", "", reorderedSongIds) /\ UNCHANGED ui

initializePlaylistSheet(s) ==
    Begin(s, "init", "", <<>>) /\ UNCHANGED ui

checkSheetAccess(s) ==
    Begin(s, "check", "", <<>>) /\ UNCHANGED ui

\* a handler of App.tsx is called and returns without calling a playlist function
NoRequest(s, handler, arg, outcome) ==
    /\ opsLeft[s] > 0
    /\ opsLeft' = [opsLeft EXCEPT ![s] = @ - 1]
    /\ ui' = [ui EXCEPT ![s] = Returned(@, handler, arg, outcome)]
    /\ UNCHANGED <<sheet, auth, op, lastWrite, used, limiterVars>>

\* a Refresh button that stays enabled while a handler is running
refreshPlaylistAnytime(s) ==
    /\ Start(s, "get", "", <<>>)
    /\ ui' = [ui EXCEPT ![s] = Await(@, "refreshPlaylist", <<>>)]

\* App.tsx refreshPlaylist: the Refresh button, disabled while isUpdating
refreshPlaylist(s) ==
    /\ ~ui[s].isUpdating
    /\ Start(s, "get", "", <<>>)
    /\ ui' = [ui EXCEPT ![s] = Await(@, "refreshPlaylist", <<>>)]

\* a toggleSong that shows the new selection before the write is done
toggleSongOptimistic(s, songId) ==
    /\ ~ui[s].isUpdating
    /\ IF ~ui[s].isAuthenticated
       THEN NoRequest(s, "toggleSong", <<>>, "alert")
       ELSE /\ Start(s, "toggle", songId, <<>>)
            /\ ui' = [ui EXCEPT ![s] =
                         [Await(@, "toggleSong", <<songId>>)
                             EXCEPT !.songs[songId].isSelected = ~@]]

\* App.tsx toggleSong: the checkbox of a song, disabled while isUpdating; the
\* handler itself alerts and returns when not authenticated
toggleSong(s, songId) ==
    /\ ~ui[s].isUpdating
    /\ IF ~ui[s].isAuthenticated
       THEN NoRequest(s, "toggleSong", <<>>, "alert")
       ELSE /\ Start(s, "toggle", songId, <<>>)
            /\ ui' = [ui EXCEPT ![s] = Await(@, "toggleSong", <<songId>>)]

\* a moveSong without the check of isAuthenticated
moveSongUnguarded(s, songId, direction) ==
    LET shown        == selectedSongs(ui[s])
        currentIndex == IndexOf(shown, songId)
        newIndex     == IF direction = "up" THEN currentIndex - 1 ELSE currentIndex + 1
    IN  /\ ~ui[s].isUpdating
        /\ ui[s].songs[songId].isSelected
        /\ IF \/ direction = "up" /\ currentIndex = 1
              \/ direction = "down" /\ currentIndex = Len(shown)
           THEN NoRequest(s, "moveSong", <<songId, direction>>, "return")
           ELSE /\ Start(s, "reorder", "", Spliced(shown, currentIndex, newIndex))
                /\ ui' = [ui EXCEPT ![s] = Await(@, "moveSong", <<songId, direction>>)]

\* App.tsx moveSong: the up / down button of a song the panel shows (a song
\* with isSelected), disabled while isUpdating; the handler alerts and returns when
\* not authenticated, returns at the end of the list it points to, and else
\* hands reorderPlaylist the shown ids in their new sequence
moveSong(s, songId, direction) ==
    LET shown        == selectedSongs(ui[s])
        currentIndex == IndexOf(shown, songId)
        newIndex     == IF direction = "up" THEN currentIndex - 1 ELSE currentIndex + 1
    IN  /\ ~ui[s].isUpdating
        /\ ui[s].songs[songId].isSelected
        /\ IF ~ui[s].isAuthenticated
           THEN NoRequest(s, "moveSong", <<>>, "alert")
           ELSE IF \/ direction = "up" /\ currentIndex = 1
                   \/ direction = "down" /\ currentIndex = Len(shown)
           THEN NoRequest(s, "moveSong", <<songId, direction>>, "return")
           ELSE /\ Start(s, "reorder", "", Spliced(shown, currentIndex, newIndex))
                /\ ui' = [ui EXCEPT ![s] = Await(@, "moveSong", <<songId, direction>>)]

\* a caller that holds a collection of its own hands it to the exported
\* updatePlaylistData
HoldsItems(playlistItems) ==
    [IdleOp EXCEPT !.entry = "update", !.kind = "update", !.items = playlistItems]

CallUpdatePlaylistData(s) ==
    /\ op[s].pc = "idle"
    /\ op[s].entry = "update"
    /\ op' = [op EXCEPT ![s] = updatePlaylistData(s, op[s], op[s].items)]
    /\ used' = used \cup {"update"}
    /\ UNCHANGED <<sheet, auth, opsLeft, lastWrite, ui, limiterVars>>

\* the limiter lets the GET go
FetchSend(s) ==
    /\ op[s].pc = "read_wait"
    /\ op' = [op EXCEPT ![s].pc = "read_flight", ![s].nFetch = @ + 1]
    /\ UNCHANGED <<sheet, auth, opsLeft, lastWrite, used, ui, limiterVars>>

\* the server answers the GET (status 0: the request failed on the network) and
\* the function runs on to its next await or to its end
ReadResponse(s, status) ==
    /\ op[s].pc = "read_flight"
    /\ LET currentPlaylist == getPlaylistData(status, sheet)
           o == [op[s] EXCEPT !.snapshot = currentPlaylist,
                              !.nFailed = IF status = 200 THEN @ ELSE @ + 1,
                              !.first = IF @ # "none" THEN @
                                        ELSE IF status = 200 THEN "ok" ELSE "failed"]
       IN  op' = [op EXCEPT ![s] =
                    CASE o.kind = "toggle"  -> toggleSongSelectionThen(s, o, currentPlaylist)
                      [] o.kind = "add"     -> addSongToPlaylistThen(s, o, currentPlaylist)
                      [] o.kind = "remove"  -> removeSongFromPlaylistThen(s, o, currentPlaylist)
                      [] o.kind = "reorder" -> reorderPlaylistThen(s, o, currentPlaylist)
                      [] o.kind = "init"    -> initializePlaylistSheetThen(s, o, currentPlaylist)
                      [] o.kind = "check"   -> checkSheetAccessThen(o, currentPlaylist)
                      [] o.kind = "get"     -> [o EXCEPT !.pc = "done", !.result = "ok"]]
    /\ ui' = [ui EXCEPT ![s] = Resume(@, op'[s])]
    /\ UNCHANGED <<sheet, auth, opsLeft, lastWrite, used, limiterVars>>

\* every failed write reported as the same error
WriteErrorGeneric(status) == "TransportError"

\* a limiter that drops the PUT of a session that has signed out
WriteSendIfReady(s) ==
    /\ op[s].pc = "write_wait"
    /\ isGapiReady(s)
    /\ op' = [op EXCEPT ![s].pc = "write_flight", ![s].nWrite = @ + 1]
    /\ UNCHANGED <<sheet, auth, opsLeft, lastWrite, used, ui, limiterVars>>

\* the limiter lets the PUT go
WriteSend(s) ==
    /\ op[s].pc = "write_wait"
    /\ op' = [op EXCEPT ![s].pc = "write_flight", ![s].nWrite = @ + 1]
    /\ UNCHANGED <<sheet, auth, opsLeft, lastWrite, used, ui, limiterVars>>

WriteError(status) ==
    CASE status = 401 -> "AuthExpired"
      [] status = 403 -> "AccessDenied"
      [] OTHER        -> "TransportError"

\* a writer that sends its PUT again when the response is a failure
WriteResponseRetry(s, status) ==
    /\ op[s].pc = "write_flight"
    /\ IF status = 200
       THEN /\ sheet' = ValuesUpdate(sheet, op[s].values)
            /\ lastWrite' = [by |-> s, items |-> op[s].items,
                             values |-> op[s].values, before |-> sheet]
            /\ op' = [op EXCEPT ![s].pc = "done", ![s].result = "ok",
                                ![s].wstatus = status]
       ELSE /\ op' = [op EXCEPT ![s].pc = "write_wait", ![s].nLimited = @ + 1,
                                ![s].wstatus = status]
            /\ UNCHANGED <<sheet, lastWrite>>
    /\ ui' = [ui EXCEPT ![s] = Resume(@, op'[s])]
    /\ UNCHANGED <<auth, opsLeft, used, limiterVars>>

\* a write that is stored although its response is a failure
WriteResponseStored(s, status) ==
    /\ op[s].pc = "write_flight"
    /\ sheet' = ValuesUpdate(sheet, op[s].values)
    /\ lastWrite' = [by |-> s, items |-> op[s].items,
                     values |-> op[s].values, before |-> sheet]
    /\ op' = [op EXCEPT ![s].pc = "done", ![s].wstatus = status,
                        ![s].result = IF status = 200 THEN "ok" ELSE WriteError(status)]
    /\ ui' = [ui EXCEPT ![s] = Resume(@, op'[s])]
    /\ UNCHANGED <<auth, opsLeft, used, limiterVars>>

\* the server answers the PUT; only a 200 changes the sheet.  The caller gets
\* the error of a failed PUT, except from initializePlaylistSheet, which does
\* not look at the response and catches what fetch throws
WriteResponse(s, status) ==
    /\ op[s].pc = "write_flight"
    /\ IF status = 200
       THEN /\ sheet' = ValuesUpdate(sheet, op[s].values)
            /\ lastWrite' = [by |-> s, items |-> op[s].items,
                             values |-> op[s].values, before |-> sheet]
            /\ op' = [op EXCEPT ![s].pc = "done", ![s].result = "ok",
                                ![s].wstatus = status]
       ELSE /\ op' = [op EXCEPT ![s].pc = "done",
                                ![s].result = IF op[s].kind = "init" THEN "ok"
                                              ELSE WriteError(status),
                                ![s].wstatus = status]
            /\ UNCHANGED <<sheet, lastWrite>>
    /\ ui' = [ui EXCEPT ![s] = Resume(@, op'[s])]
    /\ UNCHANGED <<auth, opsLeft, used, limiterVars>>

----------------------------------------------------------------------------
(* rateLimitedFetch with a clock *)

IdleCall == [st |-> "idle", seq |-> 0, delay |-> 0, due |-> 0, start |-> 0]

TickSteps == {RATE_LIMIT_DELAY \div 4, RATE_LIMIT_DELAY \div 2}

Tick(d) ==
    /\ now + d <= MaxClock
    /\ now' = now + d
    /\ UNCHANGED <<lastRequestTime, calls, arrivals, sheetVars>>

\* lines 16-21, and 23-24 when the call does not have to wait
rateLimitedFetch(c) ==
    /\ calls[c].st = "idle"
    /\ arrivals' = arrivals + 1
    /\ LET timeSinceLastRequest == now - lastRequestTime
       IN  IF timeSinceLastRequest < RATE_LIMIT_DELAY
           THEN /\ calls' = [calls EXCEPT ![c] =
                      [st |-> "waiting", seq |-> arrivals + 1,
                       delay |-> RATE_LIMIT_DELAY - timeSinceLastRequest,
                       due |-> now + (RATE_LIMIT_DELAY - timeSinceLastRequest),
                       start |-> 0]]
                /\ UNCHANGED lastRequestTime
           ELSE /\ calls' = [calls EXCEPT ![c] =
                      [st |-> "sent", seq |-> arrivals + 1, delay |-> 0,
                       due |-> now, start |-> now]]
                /\ lastRequestTime' = now
    /\ UNCHANGED <<now, sheetVars>>

\* the timer of a waiting call runs: not before it is due, possibly later, and
\* not before a timer set earlier with a delay no longer than its own
TimerFires(c) ==
    /\ calls[c].st = "waiting"
    /\ now >= calls[c].due
    /\ \A c2 \in Calls :
          (calls[c2].st = "waiting" /\ calls[c2].seq < calls[c].seq)
              => calls[c2].delay > calls[c].delay
    /\ lastRequestTime' = now
    /\ calls' = [calls EXCEPT ![c].st = "sent", ![c].start = now]
    /\ UNCHANGED <<now, arrivals, sheetVars>>

----------------------------------------------------------------------------
(* Specifications *)

DataRows == {<<id, sel>> : id \in SongIds, sel \in {"TRUE", "FALSE"}} \cup {<<"", "">>}

\* sheets a user can have: the header, then rows with no songId twice; a row
\* left empty by hand sits between rows that hold a song
InitSheets ==
    {<<Header>> \o rows : rows \in
        {r \in SeqsUpTo(DataRows, MaxInitRows) :
            /\ \A i, j \in 1..Len(r) : (r[i][1] # "" /\ r[i][1] = r[j][1]) => i = j
            /\ Trim(r) = r}}

NoWrite == [by |-> "none", items |-> <<>>, values |-> <<>>, before |-> <<>>]

InitLimiterIdle ==
    /\ now = RATE_LIMIT_DELAY
    /\ lastRequestTime = 0
    /\ calls = [c \in Calls |-> IdleCall]
    /\ arrivals = 0

InitSessionsIdle ==
    /\ auth = [s \in Sessions |-> SignedOut]
    /\ ui = [s \in Sessions |-> NoUI]
    /\ op = [s \in Sessions |-> IdleOp]
    /\ opsLeft = [s \in Sessions |-> MaxOps]
    /\ lastWrite = NoWrite
    /\ used = {}

Init ==
    /\ sheet \in InitSheets
    /\ InitSessionsIdle
    /\ InitLimiterIdle

Next ==
    \/ \E s \in Solo : initializeGapi(s)
    \/ \E s \in Solo : handleCredentialResponse(s)
    \/ \E s \in Solo, granted \in BOOLEAN : TokenResponse(s, granted)
    \/ \E s \in Solo : signOut(s)
    \/ \E s \in Solo, id \in SongIds : toggleSongSelection(s, id)
    \/ \E s \in Solo, id \in SongIds : addSongToPlaylist(s, id)
    \/ \E s \in Solo, id \in SongIds : removeSongFromPlaylist(s, id)
    \/ \E s \in Solo, ids \in IdLists : reorderPlaylist(s, ids)
    \/ \E s \in Solo : FetchSend(s)
    \/ \E s \in Solo, status \in {200, 403, 500, 0} : ReadResponse(s, status)
    \/ \E s \in Solo : WriteSend(s)
    \/ \E s \in Solo, status \in {200, 401, 403, 500, 0} : WriteResponse(s, status)

\* one browser session working on the sheet
Spec == Init /\ [][Next]_vars

\* the timer of rateLimitedFetch fires and fetch settles, with a response or
\* with a rejection: no request waits or stays in flight for ever
Fairness ==
    /\ WF_vars(\E s \in Solo : FetchSend(s))
    /\ WF_vars(\E s \in Solo, status \in {200, 403, 500, 0} : ReadResponse(s, status))
    /\ WF_vars(\E s \in Solo : WriteSend(s))
    /\ WF_vars(\E s \in Solo, status \in {200, 401, 403, 500, 0} : WriteResponse(s, status))

InitLive ==
    /\ sheet \in {sh \in InitSheets : Len(sh) <= 1 + MaxSharedRows}
    /\ InitSessionsIdle
    /\ InitLimiterIdle

NextLive ==
    \/ \E s \in Solo : initializeGapi(s)
    \/ \E s \in Solo : handleCredentialResponse(s)
    \/ \E s \in Solo, granted \in BOOLEAN : TokenResponse(s, granted)
    \/ \E s \in Solo : signOut(s)
    \/ \E s \in Solo, id \in SongIds : toggleSongSelection(s, id)
    \/ \E s \in Solo : FetchSend(s)
    \/ \E s \in Solo, status \in {200, 403, 500, 0} : ReadResponse(s, status)
    \/ \E s \in Solo : WriteSend(s)
    \/ \E s \in Solo, status \in {200, 401, 403, 500, 0} : WriteResponse(s, status)

\* one browser session toggling songs, whose timers fire and whose requests
\* are answered
SpecLive == InitLive /\ [][NextLive]_vars /\ Fairness

NextStore ==
    \/ Next
    \/ \E s \in Solo : initializePlaylistSheet(s)

\* one browser session with every function that writes to the sheet
SpecStore == Init /\ [][NextStore]_vars

InitShared ==
    /\ sheet \in {sh \in InitSheets : Len(sh) <= 1 + MaxSharedRows}
    /\ InitSessionsIdle
    /\ InitLimiterIdle

NextShared ==
    \/ \E s \in Sessions : initializeGapi(s)
    \/ \E s \in Sessions : handleCredentialResponse(s)
    \/ \E s \in Sessions, granted \in BOOLEAN : TokenResponse(s, granted)
    \/ \E s \in Sessions : signOut(s)
    \/ \E s \in Sessions, id \in SongIds : addSongToPlaylist(s, id)
    \/ \E s \in Sessions : FetchSend(s)
    \/ \E s \in Sessions, status \in {200, 403, 500, 0} : ReadResponse(s, status)
    \/ \E s \in Sessions : WriteSend(s)
    \/ \E s \in Sessions, status \in {200, 401, 403, 500, 0} : WriteResponse(s, status)

\* two browser sessions adding songs to the same sheet
SpecShared == InitShared /\ [][NextShared]_vars

InitLimiter ==
    /\ sheet = <<Header>>
    /\ InitSessionsIdle
    /\ InitLimiterIdle

NextLimiter ==
    \/ \E d \in TickSteps : Tick(d)
    \/ \E c \in Calls : rateLimitedFetch(c)
    \/ \E c \in Calls : TimerFires(c)

SpecLimiter == InitLimiter /\ [][NextLimiter]_vars

InitToggle ==
    /\ sheet \in InitSheets
    /\ auth = [s \in Sessions |-> SignedOut]
    /\ ui = [s \in Sessions |-> NoUI]
    /\ op = [s \in Sessions |-> IdleOp]
    /\ opsLeft = [s \in Sessions |-> MaxToggles]
    /\ lastWrite = NoWrite
    /\ used = {}
    /\ InitLimiterIdle

NextToggle ==
    \/ \E s \in Solo : initializeGapi(s)
    \/ \E s \in Solo : handleCredentialResponse(s)
    \/ \E s \in Solo, granted \in BOOLEAN : TokenResponse(s, granted)
    \/ \E s \in Solo : signOut(s)
    \/ \E s \in Solo, id \in SongIds : toggleSongSelection(s, id)
    \/ \E s \in Solo : FetchSend(s)
    \/ \E s \in Solo, status \in {200, 500} : ReadResponse(s, status)
    \/ \E s \in Solo : WriteSend(s)
    \/ \E s \in Solo, status \in {200, 401} : WriteResponse(s, status)

\* one browser session toggling songs, one toggle after the other
SpecToggle == InitToggle /\ [][NextToggle]_vars

\* second cells a sheet can hold
Flags == {"TRUE", "true", "True", "1", "FALSE", "0", ""}

\* rows as the read endpoint returns them: without cells, with the first cell
\* only, or with both
ReadRows ==
    {<<>>} \cup {<<id>> : id \in SongIds}
           \cup {<<id, flag>> : id \in SongIds \cup {""}, flag \in Flags}

\* a tab without values, or the header followed by rows
ReaderSheets ==
    {<<>>} \cup
    {<<Header>> \o rows : rows \in {r \in SeqsUpTo(ReadRows, MaxReadRows) : Trim(r) = r}}

InitReader ==
    /\ sheet \in ReaderSheets
    /\ InitSessionsIdle
    /\ InitLimiterIdle

NextReader ==
    \/ \E s \in Solo : refreshPlaylist(s)
    \/ \E s \in Solo : checkSheetAccess(s)
    \/ \E s \in Solo : FetchSend(s)
    \/ \E s \in Solo, status \in {200, 403, 500, 0} : ReadResponse(s, status)

\* getPlaylistData on sheets with every kind of row
SpecReader == InitReader /\ [][NextReader]_vars

WriterItems ==
    {PlaylistItem(id, selected, order) :
        id \in SongIds, selected \in BOOLEAN, order \in 0..MaxOrder}

\* a session, signed in or not, about to call updatePlaylistData with a
\* collection in any sequence and with any order fields
InitWriter ==
    /\ sheet = <<Header>>
    /\ \E a \in {SignedOut, SignedIn} : auth = [s \in Sessions |-> a]
    /\ ui = [s \in Sessions |-> NoUI]
    /\ \E playlistItems \in SeqsUpTo(WriterItems, MaxItems) :
          op = [s \in Sessions |-> IF s \in Solo THEN HoldsItems(playlistItems) ELSE IdleOp]
    /\ opsLeft = [s \in Sessions |-> MaxOps]
    /\ lastWrite = NoWrite
    /\ used = {}
    /\ InitLimiterIdle

NextWriter ==
    \/ \E s \in Solo : signOut(s)
    \/ \E s \in Solo : CallUpdatePlaylistData(s)
    \/ \E s \in Solo : WriteSend(s)
    \/ \E s \in Solo, status \in {200, 401, 403, 500, 0} : WriteResponse(s, status)

\* updatePlaylistData applied to the collection the caller holds
SpecWriter == InitWriter /\ [][NextWriter]_vars

----------------------------------------------------------------------------
(* Claims about the rate limiter (SpecLimiter) *)

Sent(c)    == calls[c].st = "sent"
Entered(c) == calls[c].st # "idle"

\* C1: no two requests the limiter lets through begin less than
\* RATE_LIMIT_DELAY ms apart, whatever the interleaving of the calls.
\* Stated as the claim; the code breaks it: two calls that both arrive while
\* the delay runs read the same lastRequestTime and wake at the same moment.
C1_MinimumInterval ==
    \A c1, c2 \in Calls :
        (c1 # c2 /\ Sent(c1) /\ Sent(c2))
            => \/ calls[c1].start - calls[c2].start >= RATE_LIMIT_DELAY
               \/ calls[c2].start - calls[c1].start >= RATE_LIMIT_DELAY

\* C8: overlapping calls are released in arrival order: whenever a call has
\* sent its request, every call that entered the limiter before it has too.
\* Stated as the claim; the code keeps no queue, and a call that arrives once
\* the delay is over goes out at once, ahead of a call whose timer is late.
C8_FifoRelease ==
    \A c1, c2 \in Calls :
        (Entered(c1) /\ Sent(c2) /\ calls[c1].seq < calls[c2].seq) => Sent(c1)

----------------------------------------------------------------------------
(* Claims about the playlist operations (Spec, SpecShared) *)

Done(s)      == op[s].pc = "done"
Succeeded(s) == Done(s) /\ op[s].result = "ok"
PastFetch(s) == op[s].pc \in {"write_wait", "write_flight", "done"}

SongIdsOf(rows) == LET items == ParseRows(rows) IN [i \in 1..Len(items) |-> items[i].songId]

NoDuplicates(seq) == \A i, j \in 1..Len(seq) : seq[i] = seq[j] => i = j

\* C2: from a sheet with unique songIds, toggleSelection, remove and reorder
\* (with duplicate-free lists), reads failing or not, never leave two data
\* rows with the same songId.
\* Stated as the claim, for the writes that cover every row of the sheet (so
\* that the rows a shorter PUT leaves behind, C10, play no part); the code
\* breaks it: toggleSongSelection decides on one fetch and the
\* addSongToPlaylist it calls appends to another.
C2_UniqueSongIds ==
    ("add" \notin used /\ Len(lastWrite.values) >= Len(lastWrite.before))
        => NoDuplicates(SongIdsOf(sheet))

\* C3: updatePlaylistData called while isGapiReady() is false throws the
\* signed-in error, sends no PUT and does not call rateLimitedFetch.
C3_UnauthenticatedNoRequest ==
    \A s \in Sessions :
        op[s].ready = "no"
            => /\ Done(s)
               /\ op[s].result = "Unauthenticated"
               /\ op[s].nWrite = 0
               /\ op[s].nLimited = op[s].nFetch

C3_Witness ==
    \E s \in Sessions :
        /\ op[s].ready = "no"
        /\ Done(s)
        /\ op[s].first = "ok"
        /\ op[s].items # <<>>

\* C4: with two sessions, once both have finished the sheet equals the payload
\* of the last successful write.
\* Stated as the claim; the code breaks it through the PUT of C10: rows of the
\* sheet below the payload survive the write.
C4_LastWriteWins ==
    ((\A s \in Sessions : Done(s)) /\ lastWrite.by # "none")
        => sheet = lastWrite.values

\* the lost update C4 describes: both sessions read, then both write, both
\* writes succeed, and the song of the first writer is not in the sheet
C4_LostUpdate ==
    \E s1, s2 \in Sessions :
        /\ s1 # s2
        /\ Succeeded(s1) /\ Succeeded(s2)
        /\ op[s1].first = "ok" /\ op[s2].first = "ok"
        /\ op[s1].snapshot = op[s2].snapshot
        /\ op[s1].songId # op[s2].songId
        /\ lastWrite.by = s2
        /\ Find(ParseRows(sheet), op[s1].songId) = 0
        /\ Find(ParseRows(sheet), op[s2].songId) # 0

LastSongRow(rows) == rows[Len(rows)]

\* C5: addSongToPlaylist, its fetch having succeeded, leaves the new entry as
\* the last data row of the sheet.
\* Stated as the claim; the code breaks it: order = currentPlaylist.length is
\* smaller than the order of a row read after two rows without a songId, and
\* the sort puts the new entry before that row.
C5_AddAppendsLast ==
    \A s \in Sessions :
        (/\ op[s].entry = "add"
         /\ op[s].first = "ok"
         /\ Find(op[s].snapshot, op[s].songId) = 0
         /\ Succeeded(s)
         /\ lastWrite.by = s)
            => LastSongRow(sheet) = <<op[s].songId, "TRUE">>

OnEmptyPlaylist(o) ==
    CASE o.entry = "add"     -> AddItems(<<>>, o.songId)
      [] o.entry = "toggle"  -> AddItems(<<>>, o.songId)
      [] o.entry = "remove"  -> RemoveItems(<<>>, o.songId)
      [] o.entry = "reorder" -> ReorderItems(<<>>, o.ids)

\* C6: when the fetch that starts a mutation fails, a successful write stores
\* exactly what the operation gives on an empty playlist.
\* Stated as the claim; the code breaks it: the PUT of C10 leaves the rows
\* below the payload, and toggleSongSelection fetches again before it writes.
C6_FailedFetchWritesEmptyResult ==
    \A s \in Sessions :
        (op[s].first = "failed" /\ Succeeded(s) /\ lastWrite.by = s)
            => sheet = ToValues(OnEmptyPlaylist(op[s]))

Handed(o) == o.entry = "toggle" /\ o.kind # "toggle"

ComputedFrom(o, currentPlaylist) ==
    CASE o.kind = "add"     -> AddItems(currentPlaylist, o.songId)
      [] o.kind = "remove"  -> RemoveItems(currentPlaylist, o.songId)
      [] o.kind = "reorder" -> ReorderItems(currentPlaylist, o.ids)
      [] o.kind = "toggle"  -> SelectItems(currentPlaylist, o.songId)

WellFormed(items) ==
    /\ NoDuplicates([i \in 1..Len(items) |-> items[i].songId])
    /\ \A i \in 1..Len(items) : items[i].songId # ""
    /\ {items[i].order : i \in 1..Len(items)} = 0..(Len(items) - 1)

\* C9: entries with unique non-empty songIds and order 0..n-1, written with
\* updatePlaylistData and read back with getPlaylistData, come back with the
\* same ids, flags and order.
\* Stated as the claim; the code breaks it through the PUT of C10: the read
\* returns the written entries followed by the rows the write left behind.
C9_RoundTrip ==
    (lastWrite.by # "none" /\ lastWrite.items # <<>> /\ WellFormed(lastWrite.items))
        => getPlaylistData(200, sheet) = SortByOrder(lastWrite.items)

\* C10: after a successful write of k entries over a sheet of m > k data rows
\* the sheet is the header and those k rows.
\* Stated as the claim; the code breaks it: the PUT updates the rows it
\* supplies and rows k+1..m keep their old values.
C10_FullReplace ==
    (lastWrite.by # "none" /\ Len(lastWrite.before) > Len(lastWrite.values))
        => sheet = lastWrite.values

----------------------------------------------------------------------------
(* Claims about toggleSongSelection (SpecToggle, Spec) *)

\* C11: with no request failing, toggling a stored, selected entry takes its
\* songId out of the sheet, and toggling the same id again puts it back as a
\* selected entry in the last data row.
\* Stated as the claim; the code breaks it through the PUT of C10: the payload
\* of the removal is one row shorter than the sheet, so the last row stays,
\* and when the toggled entry is the last row it stays stored.
C11_ToggleOffThenOn ==
    \A s \in Sessions :
        (op[s].entry = "toggle" /\ Succeeded(s) /\ op[s].nFailed = 0)
            => /\ op[s].kind = "remove"
                    => Find(ParseRows(sheet), op[s].songId) = 0
               /\ op[s].prev = <<op[s].songId>>
                    => /\ op[s].kind = "add"
                       /\ LastSongRow(sheet) = <<op[s].songId, "TRUE">>

\* the two toggles of C11 have both run: the first removed, the second has
\* written too
C11_ToggledTwice ==
    \E s \in Sessions :
        /\ op[s].entry = "toggle" /\ Succeeded(s) /\ op[s].nFailed = 0
        /\ op[s].prev = <<op[s].songId>>

\* the sheet after a successful PUT of these items
StoreAfter(rows, playlistItems) == ValuesUpdate(rows, ToValues(playlistItems))

\* C12: in one session with no request failing, toggleSongSelection(id) leaves
\* the sheet as removeSongFromPlaylist(id) leaves it when id is stored and
\* selected, and as addSongToPlaylist(id) leaves it when id is not stored.
C12_ToggleAsRemoveOrAdd ==
    \A s \in Sessions :
        (Succeeded(s) /\ lastWrite.by = s /\ op[s].nFailed = 0)
            => LET before == lastWrite.before
                   stored == ParseRows(before)
                   k      == Find(stored, op[s].songId)
                   removed == StoreAfter(before, RemoveItems(stored, op[s].songId))
                   added   == StoreAfter(before, AddItems(stored, op[s].songId))
               IN  /\ op[s].entry = "remove" => sheet = removed
                   /\ op[s].entry = "add" => sheet = added
                   /\ (op[s].entry = "toggle" /\ k # 0 /\ stored[k].selected)
                         => sheet = removed
                   /\ (op[s].entry = "toggle" /\ k = 0) => sheet = added

C12_Witness ==
    \E s \in Sessions :
        /\ op[s].entry = "toggle" /\ Succeeded(s) /\ op[s].nFailed = 0
        /\ op[s].kind = "remove"
        /\ op[s].nFetch = 2
        /\ lastWrite.by = s
        /\ sheet # lastWrite.before

FlagCell(selected) == IF selected THEN "TRUE" ELSE "FALSE"

\* the PUT body shows these entries, one row each, in this sequence
BodyShows(values, playlistItems) ==
    /\ Len(values) = 1 + Len(playlistItems)
    /\ values[1] = Header
    /\ \A i \in 1..Len(playlistItems) :
          values[i + 1] = <<playlistItems[i].songId, FlagCell(playlistItems[i].selected)>>

\* C13: toggleSongSelection of a stored, unselected entry hands on, and puts
\* in the PUT body, the fetched entries in their sequence with the same
\* songIds and order fields, and with the same selected flags but for the
\* toggled id, whose flag is true.
C13_ToggleSelectsInPlace ==
    \A s \in Sessions :
        (op[s].kind = "toggle" /\ PastFetch(s))
            => LET snap  == op[s].snapshot
                   items == op[s].items
               IN  /\ Find(snap, op[s].songId) # 0
                   /\ ~snap[Find(snap, op[s].songId)].selected
                   /\ Len(items) = Len(snap)
                   /\ \A i \in 1..Len(snap) :
                         /\ items[i].songId = snap[i].songId
                         /\ items[i].order = snap[i].order
                         /\ items[i].selected =
                               (snap[i].selected \/ snap[i].songId = op[s].songId)
                   /\ op[s].values # <<>> => BodyShows(op[s].values, items)

C13_Witness ==
    \E s \in Sessions :
        /\ op[s].kind = "toggle" /\ Succeeded(s)
        /\ \E i, j \in 1..Len(op[s].snapshot) :
              /\ op[s].snapshot[i].songId = op[s].songId
              /\ op[s].snapshot[i].order # i - 1
              /\ op[s].snapshot[j].songId # op[s].songId
              /\ ~op[s].snapshot[j].selected
              /\ ~op[s].items[j].selected

----------------------------------------------------------------------------
(* Claims about removeSongFromPlaylist and reorderPlaylist (Spec) *)

Count(items, id) == Cardinality({i \in 1..Len(items) : items[i].songId = id})

C15_ReorderReplaces ==
    \A s \in Sessions :
        (op[s].entry = "reorder" /\ op[s].ids # <<>> /\ Succeeded(s) /\ lastWrite.by = s)
            => SongIdsOf(sheet) = op[s].ids

\* C16: in the collection reorderPlaylist(ids) hands on and puts in the PUT
\* body, an id found in the fetched snapshot has the selected flag of the
\* entry found, and an id not found has selected = true.
C16_ReorderKeepsFlags ==
    \A s \in Sessions :
        (op[s].kind = "reorder" /\ PastFetch(s))
            => LET snap  == op[s].snapshot
                   items == op[s].items
               IN  /\ Len(items) = Len(op[s].ids)
                   /\ \A i \in 1..Len(items) :
                         LET k == Find(snap, op[s].ids[i])
                         IN  /\ items[i].songId = op[s].ids[i]
                             /\ k = 0 => items[i].selected
                             /\ k # 0 => items[i].selected = snap[k].selected
                   /\ op[s].values # <<>> => BodyShows(op[s].values, items)

C16_Witness ==
    \E s \in Sessions :
        /\ op[s].kind = "reorder" /\ Succeeded(s)
        /\ \E i, j \in 1..Len(op[s].ids) :
              /\ Find(op[s].snapshot, op[s].ids[i]) = 0
              /\ op[s].items[i].selected
              /\ Find(op[s].snapshot, op[s].ids[j]) # 0
              /\ ~op[s].items[j].selected

----------------------------------------------------------------------------
(* Claims about updatePlaylistData (SpecWriter) *)

\* the place of entry i in a stable ascending sort by order: after the
\* entries of smaller order and the earlier entries of equal order
Rank(playlistItems, i) ==
    1 + Cardinality({j \in 1..Len(playlistItems) :
            \/ playlistItems[j].order < playlistItems[i].order
            \/ playlistItems[j].order = playlistItems[i].order /\ j < i})

\* C17: the PUT body of updatePlaylistData, and the rows of the sheet it has
\* set, hold the entries by ascending order field whatever their sequence in
\* the input, entries of equal order in their input sequence.
C17_SortedStable ==
    \A s \in Sessions :
        (op[s].entry = "update" /\ op[s].values # <<>>)
            => LET items == op[s].items
                   body  == op[s].values
               IN  /\ Len(body) = 1 + Len(items)
                   /\ body[1] = Header
                   /\ \A i \in 1..Len(items) :
                         body[1 + Rank(items, i)] =
                             <<items[i].songId, FlagCell(items[i].selected)>>
                   /\ (Succeeded(s) /\ lastWrite.by = s)
                         => SubSeq(sheet, 1, Len(body)) = body

C17_Witness ==
    \E s \in Sessions :
        /\ op[s].entry = "update" /\ Succeeded(s)
        /\ \E i, j, k \in 1..Len(op[s].items) :
              /\ i < j /\ j < k
              /\ op[s].items[i].order > op[s].items[k].order
              /\ op[s].items[i].order = op[s].items[j].order
              /\ op[s].items[i].songId # op[s].items[j].songId
              /\ sheet[2][1] = op[s].items[k].songId
              /\ sheet[3][1] = op[s].items[i].songId
              /\ sheet[4][1] = op[s].items[j].songId

----------------------------------------------------------------------------
(* Claims about getPlaylistData (SpecReader) *)

\* a read of the playlist that has returned; the sheet is as it was read
HasRead(s)   == op[s].entry = "get" /\ Done(s)
HasReadOk(s) == HasRead(s) /\ op[s].first = "ok"

RowsAfterHeader(rows) == IF rows = <<>> THEN <<>> ELSE Tail(rows)

\* a cell without regard to the case of its letters
Lower(cell) == IF cell \in {"TRUE", "True", "true"} THEN "true" ELSE cell

\* C18: every entry read has selected = true iff the second cell of its row
\* is "true" or "1" without regard to case; any other cell, an empty or a
\* missing one too, gives false.
\* Stated as the claim; the code breaks it: it compares the cell with
\* 'TRUE', 'true' and '1' exactly, so "True" reads as unselected.
C18_SelectedIffTruthy ==
    \A s \in Sessions :
        HasReadOk(s)
            => \A i \in 1..Len(op[s].snapshot) :
                  LET row == RowsAfterHeader(sheet)[op[s].snapshot[i].order + 1]
                  IN  op[s].snapshot[i].selected <=> Lower(Cell(row, 2)) \in {"true", "1"}

\* C19: every entry read has as order the zero-based index of its row among
\* the rows after the header; the rows with a first cell become entries, in
\* row sequence, and the rows whose first cell is empty or missing do not.
C19_OrderIsRowIndex ==
    \A s \in Sessions :
        HasReadOk(s)
            => LET body == RowsAfterHeader(sheet)
                   snap == op[s].snapshot
               IN  /\ \A i \in 1..Len(snap) :
                         /\ snap[i].order \in 0..(Len(body) - 1)
                         /\ snap[i].songId # ""
                         /\ snap[i].songId = Cell(body[snap[i].order + 1], 1)
                   /\ \A i, j \in 1..Len(snap) : i < j => snap[i].order < snap[j].order
                   /\ \A r \in 1..Len(body) :
                         Cell(body[r], 1) # "" <=> \E i \in 1..Len(snap) : snap[i].order = r - 1

C19_Witness ==
    \E s \in Sessions :
        /\ HasReadOk(s)
        /\ \E i \in 1..Len(op[s].snapshot) : op[s].snapshot[i].order # i - 1
        /\ \E r \in 1..Len(RowsAfterHeader(sheet)) : Len(RowsAfterHeader(sheet)[r]) = 0

\* C20: getPlaylistData returns in every case: for a 403, for any other
\* failing status and for a network failure its value is the empty sequence,
\* the value it has for a sheet that holds the header only.
C20_FailureReadsEmpty ==
    \A s \in Sessions :
        HasRead(s)
            => /\ op[s].result = "ok"
               /\ op[s].first = "failed" => op[s].snapshot = <<>>
               /\ (op[s].first = "ok" /\ sheet = <<Header>>) => op[s].snapshot = <<>>

C20_Witness ==
    \E s \in Sessions :
        /\ HasRead(s)
        /\ op[s].first = "failed"
        /\ op[s].snapshot = <<>>
        /\ ParseRows(sheet) # <<>>

----------------------------------------------------------------------------
(* removeSongFromPlaylist called again with the same song *)

\* sheets with a song in every row after the header; a song can be in more
\* than one row, as the sheet is after a PUT that left rows behind
RemoveSheets ==
    {<<Header>> \o rows : rows \in
        SeqsUpTo({<<id, sel>> : id \in SongIds, sel \in {"TRUE", "FALSE"}}, MaxInitRows)}

InitRemove ==
    /\ sheet \in RemoveSheets
    /\ auth = [s \in Sessions |-> SignedIn]
    /\ ui = [s \in Sessions |-> NoUI]
    /\ op = [s \in Sessions |-> IdleOp]
    /\ opsLeft = [s \in Sessions |-> MaxRemoves]
    /\ lastWrite = NoWrite
    /\ used = {}
    /\ InitLimiterIdle

\* the caller removes a song and, the remove having succeeded, removes it again
RemoveAndAgain(s, songId) ==
    /\ \/ op[s].pc = "idle"
       \/ /\ op[s].entry = "remove"
          /\ op[s].result = "ok"
          /\ op[s].nFailed = 0
          /\ songId = op[s].songId
    /\ removeSongFromPlaylist(s, songId)

NextRemove ==
    \/ \E s \in Solo, id \in SongIds : RemoveAndAgain(s, id)
    \/ \E s \in Solo : FetchSend(s)
    \/ \E s \in Solo, status \in {200, 500} : ReadResponse(s, status)
    \/ \E s \in Solo : WriteSend(s)
    \/ \E s \in Solo, status \in {200, 401} : WriteResponse(s, status)

SpecRemove == InitRemove /\ [][NextRemove]_vars

----------------------------------------------------------------------------
(* App.tsx on top of the two services *)

\* sheets whose rows each hold a song of the folder, no song twice
UISheets ==
    {<<Header>> \o rows : rows \in
        {r \in SeqsUpTo({<<id, sel>> : id \in CatalogIds, sel \in {"TRUE", "FALSE"}},
                        MaxUIRows) :
            \A i, j \in 1..Len(r) : r[i][1] = r[j][1] => i = j}}

\* googleAuth.ts after GoogleSignIn registered its listener and the user
\* signed in: the token response called the listener with true
SignedInListening ==
    [SignedIn EXCEPT !.authStateCallback = "set",
                     !.lastCall = <<[value |-> TRUE, isSignedIn |-> TRUE,
                                     isGapiReady |-> TRUE]>>]

\* the page after the user signed in and the playlist was loaded
InitUI ==
    /\ sheet \in UISheets
    /\ auth = [s \in Sessions |-> SignedInListening]
    /\ ui = [s \in Sessions |-> LoadedUI(ParseRows(sheet))]
    /\ op = [s \in Sessions |-> IdleOp]
    /\ opsLeft = [s \in Sessions |-> MaxOps]
    /\ lastWrite = NoWrite
    /\ used = {}
    /\ InitLimiterIdle

NextUI ==
    \/ \E s \in Solo : handleCredentialResponse(s)
    \/ \E s \in Solo, granted \in BOOLEAN : TokenResponse(s, granted)
    \/ \E s \in Solo : signOut(s)
    \/ \E s \in Solo, id \in CatalogIds : toggleSong(s, id)
    \/ \E s \in Solo, id \in CatalogIds, direction \in {"up", "down"} :
          moveSong(s, id, direction)
    \/ \E s \in Solo : refreshPlaylist(s)
    \/ \E s \in Solo : FetchSend(s)
    \/ \E s \in Solo, status \in {200, 500} : ReadResponse(s, status)
    \/ \E s \in Solo : WriteSend(s)
    \/ \E s \in Solo, status \in {200, 403, 0} : WriteResponse(s, status)

\* one browser session whose user works the page
SpecUI == InitUI /\ [][NextUI]_vars

----------------------------------------------------------------------------
(* App.tsx with a signed-in user who uses one control after another *)

InitBusy ==
    /\ sheet \in {rows \in UISheets : Len(rows) <= 1 + MaxBusyRows}
    /\ auth = [s \in Sessions |-> SignedInListening]
    /\ ui = [s \in Sessions |-> LoadedUI(ParseRows(sheet))]
    /\ op = [s \in Sessions |-> IdleOp]
    /\ opsLeft = [s \in Sessions |-> MaxClicks]
    /\ lastWrite = NoWrite
    /\ used = {}
    /\ InitLimiterIdle

NextBusy ==
    \/ \E s \in Solo, id \in CatalogIds : toggleSong(s, id)
    \/ \E s \in Solo, id \in CatalogIds, direction \in {"up", "down"} :
          moveSong(s, id, direction)
    \/ \E s \in Solo : refreshPlaylist(s)
    \/ \E s \in Solo : FetchSend(s)
    \/ \E s \in Solo, status \in {200, 500} : ReadResponse(s, status)
    \/ \E s \in Solo : WriteSend(s)
    \/ \E s \in Solo, status \in {200, 403} : WriteResponse(s, status)

SpecBusy == InitBusy /\ [][NextBusy]_vars

----------------------------------------------------------------------------
(* googleAuth.ts alone: every session signs in, signs out and lets its token
   expire in any order *)

InitAuth ==
    /\ sheet = <<Header>>
    /\ auth = [s \in Sessions |-> [SignedOut EXCEPT !.gis = GisLoaded]]
    /\ ui = [s \in Sessions |-> NoUI]
    /\ op = [s \in Sessions |-> IdleOp]
    /\ opsLeft = [s \in Sessions |-> MaxOps]
    /\ lastWrite = NoWrite
    /\ used = {}
    /\ InitLimiterIdle

NextAuth ==
    \E s \in Sessions :
        \/ initializeGapi(s)
        \/ onAuthStateChanged(s)
        \/ handleCredentialResponse(s)
        \/ \E granted \in BOOLEAN : TokenResponse(s, granted)
        \/ signOut(s)
        \/ TokenExpires(s)

SpecAuth == InitAuth /\ [][NextAuth]_vars

----------------------------------------------------------------------------
(* Claims about failed writes (Spec) *)

Mutation(o) == o.entry \in {"toggle", "add", "remove", "reorder"}

WriteFailed(o) == o.pc = "done" /\ o.wstatus \notin {-1, 200}

\* C21: a mutation sends at most one PUT; when the response of its PUT is a
\* failure the mutation ends there, with an error for its caller and without
\* another call of the limiter.
C21_FailedWriteNoRetry ==
    \A s \in Sessions :
        Mutation(op[s])
            => /\ op[s].nWrite <= 1
               /\ op[s].wstatus \notin {-1, 200}
                     => /\ Done(s)
                        /\ op[s].result \notin {"ok", "none"}
                        /\ op[s].nWrite = 1
                        /\ op[s].nLimited = op[s].nFetch + 1

C21_Witness ==
    \E s \in Sessions :
        /\ op[s].entry = "toggle" /\ op[s].kind = "add"
        /\ WriteFailed(op[s])
        /\ op[s].wstatus = 0
        /\ op[s].result = "TransportError"

\* C22: the step in which a mutation ends with an error (not signed in, no
\* token, or a PUT answered 401, 403, another failing status or not at all)
\* leaves the sheet as it was, and so as the last successful write left it.
C22_FailedWriteLeavesStore ==
    [][\A s \in Sessions :
          (Mutation(op'[s]) /\ op[s].pc # "done" /\ op'[s].pc = "done"
                            /\ op'[s].result # "ok")
              => sheet' = sheet /\ lastWrite' = lastWrite]_vars

\* a PUT that would have changed the sheet was answered with a failure
C22_Witness ==
    \E s \in Sessions :
        /\ Mutation(op[s])
        /\ WriteFailed(op[s])
        /\ ValuesUpdate(sheet, op[s].values) # sheet

\* C23: a PUT answered 401 ends the operation with the authentication error,
\* one answered 403 with the permission error, one answered with any other
\* failure with the transport error; each is the result the caller gets.
C23_WriteErrorKinds ==
    \A s \in Sessions :
        (Done(s) /\ op[s].wstatus # -1)
            => op[s].result = CASE op[s].wstatus = 200 -> "ok"
                                [] op[s].wstatus = 401 -> "AuthExpired"
                                [] op[s].wstatus = 403 -> "AccessDenied"
                                [] OTHER               -> "TransportError"

C23_Witness ==
    \E s \in Sessions :
        /\ Done(s)
        /\ op[s].wstatus = 401
        /\ op[s].result = "AuthExpired"
        /\ op[s].entry = "reorder"

----------------------------------------------------------------------------
(* Claims about the authorization gate *)

\* C24: isGapiReady() is true exactly when a bearer token is held whose
\* lifetime has not run out; with an expired token it is false.
C24_ReadyIffTokenNotExpired ==
    \A s \in Sessions :
        isGapiReady(s) <=> (auth[s].accessToken # "null" /\ ~auth[s].expired)

\* C28: a PUT is sent only in a state in which isGapiReady() is true; after a
\* signOut between the check of updatePlaylistData and the release by the
\* limiter no PUT is sent.
C28_WriteSentOnlyWhenReady ==
    [][\A s \in Sessions :
          op'[s].nWrite # op[s].nWrite => isGapiReady(s)]_vars

\* C30: a call of the registered listener with true happens in a state in
\* which isSignedIn() and isGapiReady() are true.
C30_ListenerTrueMeansSignedIn ==
    \A s \in Sessions :
        (auth[s].lastCall # <<>> /\ auth[s].lastCall[1].value)
            => auth[s].lastCall[1].isSignedIn /\ auth[s].lastCall[1].isGapiReady

----------------------------------------------------------------------------
(* Claims about the header row (SpecStore) *)

\* C25: in every state the first row of the sheet is the header, and the body
\* of every PUT the program has built or sent, by updatePlaylistData or by
\* initializePlaylistSheet, has the header as its first row.
C25_HeaderFirst ==
    /\ sheet # <<>>
    /\ sheet[1] = Header
    /\ \A s \in Sessions :
          op[s].pc \in {"write_wait", "write_flight"} \/ op[s].wstatus # -1
              => op[s].values # <<>> /\ op[s].values[1] = Header
    /\ lastWrite.by # "none" => lastWrite.values[1] = Header

\* initializePlaylistSheet, its fetch having failed, has written its header
\* row over the first row of a sheet that holds songs
C25_Witness ==
    \E s \in Sessions :
        /\ op[s].entry = "init"
        /\ op[s].wstatus = 200
        /\ op[s].values = <<Header>>
        /\ lastWrite.before = sheet
        /\ Len(sheet) > 1

----------------------------------------------------------------------------
(* Claims about termination (SpecLive) *)

Running(s) == op[s].pc \notin {"idle", "done"}

\* C26: a mutation that has started ends, with success or with an error for
\* its caller; once updatePlaylistData has passed its check and waits in the
\* limiter its PUT is sent, whatever the session does to its authorization in
\* the meantime.
C26_MutationCompletes ==
    \A s \in Solo :
        /\ Running(s) ~> (Done(s) /\ op[s].result # "none")
        /\ (op[s].pc = "write_wait") ~> (op[s].pc = "write_flight" /\ op[s].nWrite = 1)

\* a mutation whose session signed out while it ran has sent its PUT and ended
C26_Witness ==
    \E s \in Solo :
        /\ Mutation(op[s])
        /\ Done(s)
        /\ op[s].ready = "yes"
        /\ op[s].nWrite = 1
        /\ ~isGapiReady(s)

----------------------------------------------------------------------------
(* Claims about the page (SpecUI) *)

FromUI(s, handlers) == ui[s].handler \in handlers /\ ~ui[s].isUpdating

\* C27: after toggleSong or moveSong has failed, songs (isSelected and
\* playlistOrder of each) and playlistData are what they were when the handler
\* was called, and no request of the session is waiting or in flight; the next
\* fetch is the one a later handler starts.
C27_FailedMutationKeepsView ==
    \A s \in Sessions :
        (FromUI(s, {"toggleSong", "moveSong"}) /\ ui[s].outcome = "failed")
            => /\ ui[s].songs = ui[s].before[1].songs
               /\ ui[s].playlistData = ui[s].before[1].playlistData
               /\ Done(s)
               /\ op[s].nLimited = op[s].nFetch + op[s].nWrite

\* a failed toggle of a song the page shows as selected, the store unchanged
C27_Witness ==
    \E s \in Sessions :
        /\ FromUI(s, {"toggleSong"})
        /\ ui[s].outcome = "failed"
        /\ op[s].wstatus = 403
        /\ ui[s].songs[op[s].songId].isSelected
        /\ lastWrite.by = "none"

StoredIds(rows) == {ParseRows(rows)[i].songId : i \in 1..Len(ParseRows(rows))}

StoredFlag(rows, id) == ParseRows(rows)[Find(ParseRows(rows), id)].selected

\* C29: after a successful moveSong the sheet holds the songIds it held before
\* the write, each with the selected flag it had.
C29_MoveKeepsIdsAndFlags ==
    \A s \in Sessions :
        (FromUI(s, {"moveSong"}) /\ ui[s].outcome = "ok" /\ lastWrite.by = s
                                  /\ op[s].nFailed = 0)
            => /\ StoredIds(sheet) = StoredIds(lastWrite.before)
               /\ \A id \in StoredIds(sheet) :
                     StoredFlag(sheet, id) = StoredFlag(lastWrite.before, id)

----------------------------------------------------------------------------
(* Claims about signOut (SpecAuth) *)

\* C31: a signOut called while a token client exists asks the library to
\* revoke the access token the module held when signOut was called.
C31_RevokesHeldToken ==
    \A s \in Sessions :
        (/\ auth[s].gis # <<>>
         /\ auth[s].gis[1].lastSignOut # <<>>
         /\ auth[s].gis[1].lastSignOut[1].tokenClient = "set")
            => auth[s].gis[1].lastSignOut[1].revoked = auth[s].gis[1].lastSignOut[1].held

\* a step of signOut that ends a session holding a user or a token
SignOutStep(s) ==
    \/ auth[s].currentUser # "null" /\ auth'[s].currentUser = "null"
    \/ auth[s].accessToken # "null" /\ auth'[s].accessToken = "null"

\* C32: when signOut returns, currentUser and accessToken are null,
\* isSignedIn() and isGapiReady() are false, and the listener, if one is
\* registered, has been called with false by this signOut.
C32_SignOutPostcondition ==
    [][\A s \in Sessions :
          SignOutStep(s)
              => /\ auth'[s].currentUser = "null"
                 /\ auth'[s].accessToken = "null"
                 /\ ~(isSignedIn(s))'
                 /\ ~(isGapiReady(s))'
                 /\ auth[s].authStateCallback # "null"
                       => auth'[s].lastCall = <<[value |-> FALSE, isSignedIn |-> FALSE,
                                                isGapiReady |-> FALSE]>>]_vars

\* a signed-in session with a listener has signed out
C32_Witness ==
    \E s \in Sessions :
        /\ auth[s].gis # <<>>
        /\ auth[s].gis[1].lastSignOut # <<>>
        /\ auth[s].gis[1].lastSignOut[1].held = "token"
        /\ auth[s].currentUser = "null"
        /\ auth[s].accessToken = "null"
        /\ auth[s].lastCall # <<>>
        /\ ~auth[s].lastCall[1].value

----------------------------------------------------------------------------
(* Claims about checkSheetAccess (SpecReader) *)

\* C33: checkSheetAccess returns true when its read of the sheet succeeded
\* and false when the read failed (403, another failing status, no response).
C33_AccessReflectsRead ==
    \A s \in Sessions :
        (op[s].entry = "check" /\ Done(s))
            => /\ op[s].result \in {"true", "false"}
               /\ op[s].result = "true" <=> op[s].first = "ok"

----------------------------------------------------------------------------
(* Claims about initializePlaylistSheet (SpecStore) *)

DataRowsOf(rows) == SubSeq(rows, 2, Len(rows))

\* C36: initializePlaylistSheet returns normally whatever its requests are
\* answered; it sends a PUT only after a fetch that gave no entry, with the
\* user ready and a token, and the PUT holds the header row alone; the rows
\* below the header are after it what they were before it.
C36_InitWritesHeaderOnly ==
    \A s \in Sessions :
        op[s].entry = "init"
            => /\ Done(s) => op[s].result = "ok"
               /\ op[s].pc \in {"write_wait", "write_flight"} \/ op[s].nWrite > 0
                     => /\ op[s].values = <<Header>>
                        /\ op[s].snapshot = <<>>
                        /\ op[s].ready = "yes"
                        /\ op[s].token # "null"
               /\ (op[s].wstatus = 200 /\ lastWrite.by = s)
                     => DataRowsOf(sheet) = DataRowsOf(lastWrite.before)

\* its PUT was answered with a failure and it returned normally
C36_Witness ==
    \E s \in Sessions :
        /\ op[s].entry = "init"
        /\ Done(s)
        /\ op[s].first = "ok"
        /\ op[s].wstatus = 401
        /\ op[s].result = "ok"

----------------------------------------------------------------------------
(* Claims about repeated removes (SpecRemove) *)

\* C37: a second removeSongFromPlaylist(id), after a first that succeeded,
\* leaves the sheet as the first left it; a removeSongFromPlaylist(id) for an
\* id no row holds sends its PUT and leaves the sheet as it was.
C37_RemoveIdempotent ==
    \A s \in Sessions :
        (op[s].entry = "remove" /\ Succeeded(s) /\ op[s].nFailed = 0 /\ lastWrite.by = s)
            => /\ opsLeft[s] < MaxRemoves - 1 => sheet = lastWrite.before
               /\ Find(ParseRows(lastWrite.before), op[s].songId) = 0
                     => sheet = lastWrite.before /\ op[s].nWrite = 1

----------------------------------------------------------------------------
(* Claims about the handlers of App.tsx (SpecUI, SpecBusy) *)

\* a step in which a handler of the page is called: it has alerted, returned
\* or is at its await
HandlerCalled(s, handlers) ==
    /\ opsLeft'[s] = opsLeft[s] - 1
    /\ ui'[s].handler \in handlers
    /\ ui'[s].outcome \in {"alert", "return", "none"}

\* C34: a toggleSong or moveSong called while isAuthenticated is false starts
\* no request (no fetch, no PUT: the session's operation is as it was and none
\* is pending afterwards) and leaves the sheet and the page's songs and
\* playlistData as they were.
C34_NoRequestWhenNotAuthenticated ==
    [][\A s \in Sessions :
          (HandlerCalled(s, {"toggleSong", "moveSong"}) /\ ~ui[s].isAuthenticated)
              => /\ op'[s] = op[s]
                 /\ op'[s].pc \in {"idle", "done"}
                 /\ sheet' = sheet
                 /\ lastWrite' = lastWrite
                 /\ ui'[s].songs = ui[s].songs
                 /\ ui'[s].playlistData = ui[s].playlistData
                 /\ ui'[s].outcome = "alert"
                 /\ ~ui'[s].isUpdating]_vars

\* C34 witness: moveSong was called on a page that shows two selected songs
\* and is not authenticated; it alerted, and the session has started no
\* operation.
C34_Witness ==
    \E s \in Sessions :
        /\ ui[s].handler = "moveSong"
        /\ ui[s].outcome = "alert"
        /\ ~ui[s].isAuthenticated
        /\ Len(selectedSongs(ui[s])) >= 2
        /\ op[s] = IdleOp

\* C35: at most one of toggleSong, moveSong, refreshPlaylist is between its
\* setIsUpdating(true) and its setIsUpdating(false); isUpdating is true exactly
\* while one is, and exactly then the session has an operation under way.
C35_OneOperationInFlight ==
    \A s \in Sessions :
        /\ ui[s].inFlight <= 1
        /\ ui[s].isUpdating <=> ui[s].inFlight = 1
        /\ ui[s].isUpdating <=> op[s].pc \notin {"idle", "done"}

\* C35 witness: the second handler call of the session is running, its PUT
\* on the way.
C35_Witness ==
    \E s \in Sessions :
        /\ opsLeft[s] = MaxClicks - 2
        /\ ui[s].isUpdating
        /\ ui[s].handler = "moveSong"
        /\ op[s].pc = "write_flight"

\* C38: a moveSong of an authenticated page for the song at position i of the
\* shown selected songs hands reorderPlaylist those ids with the song and its
\* neighbour (i-1 up, i+1 down) exchanged and every other id in place; for the
\* first song moved up or the last moved down it starts no request.
C38_MoveSwapsNeighbours ==
    [][\A s \in Sessions :
          (HandlerCalled(s, {"moveSong"}) /\ ui[s].isAuthenticated)
              => LET shown == selectedSongs(ui[s])
                     i     == IndexOf(shown, ui'[s].arg[1])
                     j     == IF ui'[s].arg[2] = "up" THEN i - 1 ELSE i + 1
                 IN  IF j \in 1..Len(shown)
                     THEN /\ op'[s].entry = "reorder"
                          /\ op'[s].pc = "read_wait"
                          /\ Len(op'[s].ids) = Len(shown)
                          /\ op'[s].ids[i] = shown[j]
                          /\ op'[s].ids[j] = shown[i]
                          /\ \A k \in 1..Len(shown) \ {i, j} : op'[s].ids[k] = shown[k]
                     ELSE /\ op'[s] = op[s]
                          /\ op'[s].pc \in {"idle", "done"}
                          /\ sheet' = sheet]_vars

\* C38 witness: the last of three shown songs was moved up and reorderPlaylist
\* has stored the list it was handed.
C38_Witness ==
    \E s \in Sessions :
        /\ ui[s].handler = "moveSong"
        /\ ui[s].arg = <<selectedSongs(ui[s])[Len(selectedSongs(ui[s]))], "up">>
        /\ Len(selectedSongs(ui[s])) = 3
        /\ op[s].entry = "reorder"
        /\ Succeeded(s)

============================================================================
